---- MODULE Spec2Model ----
(***************************************************************************)
(* A model of server/main.py: the FastAPI front end of the retrieval       *)
(* plugin.  Five handlers (upsert_file, upsert, query_main, the            *)
(* sub-application query, delete) authenticate a request against a        *)
(* per-store secret, resolve a datastore for the store named by the        *)
(* pinecone_name header and delegate one operation to it.                  *)
(*                                                                         *)
(* Handlers are coroutines: each `await` is a point where another request  *)
(* may run, so a handler is a sequence of steps selected by the request's  *)
(* pc.  The handler bodies run only for requests that passed the           *)
(* Depends(bearer_scheme) dependency, so every modelled request carries    *)
(* credentials whose scheme reads "bearer" in some letter case.            *)
(***************************************************************************)
EXTENDS Naturals, Sequences, FiniteSets, TLC

VARIABLES phase, datastore, index, req

vars == <<phase, datastore, index, req>>

(***************************************************************************)
(* Bounds of the model.                                                    *)
(***************************************************************************)
MaxQueries == 2

Workers == {"w1", "w2"}

(***************************************************************************)
(* Python values.                                                          *)
(***************************************************************************)
None == "<None>"

Unbound == "<unbound>"

\* Optional[List[str]]: the empty set is None, {l} is the list l.
Some(v) == {v}

Nothing == {}

\* bool(x) of an Optional[List[str]]: None and [] are falsy.
TruthyList(opt) == \E l \in opt : Len(l) > 0

(***************************************************************************)
(* The process environment (os.environ) of the deployment: two stores have *)
(* a secret, "misc" has none, PINECONE_INDEX names the default store.      *)
(***************************************************************************)
environ ==
    [BEARER_TOKEN |-> "root-token",
     DOCS_BEARER |-> "docs-token",
     WIKI_BEARER |-> "wiki-token",
     PINECONE_INDEX |-> "docs"]

environ_get(name) == IF name \in DOMAIN environ THEN environ[name] ELSE None

\* str.upper() on the store names of the model.
upper(s) ==
    CASE s = "docs" -> "DOCS"
      [] s = "Wiki" -> "WIKI"
      [] s = "misc" -> "MISC"
      [] OTHER -> s

(***************************************************************************)
(* Inputs.                                                                 *)
(***************************************************************************)
Handlers == {"upsert_file", "upsert", "query_main", "query", "delete"}

PineconeNames == {None, "docs", "Wiki", "misc"}

Tokens ==
    {[scheme |-> "Bearer", credentials |-> "docs-token"],
     [scheme |-> "Bearer", credentials |-> "wiki-token"],
     [scheme |-> "bearer", credentials |-> "docs-token"]}

DocIds == {"d1", "d2"}

QueryTexts == {"q1", "q2"}

Files == {"notes.txt", "broken.pdf"}

RECURSIVE SeqsUpTo(_, _)
SeqsUpTo(S, n) ==
    IF n = 0 THEN {<<>>}
    ELSE LET shorter == SeqsUpTo(S, n - 1)
         IN  shorter \cup {Append(s, x) : s \in shorter, x \in S}

NoBody ==
    [file |-> None, documents |-> <<>>, queries |-> <<>>,
     ids |-> Nothing, filter |-> None, delete_all |-> FALSE]

Bodies(handler) ==
    CASE handler = "upsert_file" ->
            {[NoBody EXCEPT !.file = f] : f \in Files}
      [] handler = "upsert" ->
            {[NoBody EXCEPT !.documents = d] : d \in {<<"d1">>, <<"d2", "d1">>}}
      [] handler \in {"query_main", "query"} ->
            {[NoBody EXCEPT !.queries = q] : q \in SeqsUpTo(QueryTexts, MaxQueries)}
      [] handler = "delete" ->
            {[NoBody EXCEPT !.ids = i, !.filter = f, !.delete_all = a] :
                i \in {Nothing, Some(<<>>), Some(<<"d1">>)},
                f \in {None, "f1"},
                a \in BOOLEAN}

\* The bodies sent by clients whose requests overlap.
ConcurrentBodies(handler) ==
    CASE handler = "upsert_file" -> {[NoBody EXCEPT !.file = "notes.txt"]}
      [] handler = "upsert" -> {[NoBody EXCEPT !.documents = <<"d2", "d1">>]}
      [] handler \in {"query_main", "query"} -> {[NoBody EXCEPT !.queries = <<"q1", "q2">>]}
      [] handler = "delete" -> {NoBody, [NoBody EXCEPT !.ids = Some(<<"d1">>)]}

(***************************************************************************)
(* Exceptions and results of calls.                                        *)
(***************************************************************************)
Exc(type, has_status_code, status_code, has_detail, detail) ==
    [type |-> type,
     has_status_code |-> has_status_code, status_code |-> status_code,
     has_detail |-> has_detail, detail |-> detail]

HTTPException(status_code, detail) ==
    Exc("HTTPException", TRUE, status_code, TRUE, detail)

\* None.upper(): 'NoneType' object has no attribute 'upper'.
AttributeError == Exc("AttributeError", FALSE, 0, FALSE, "")

NoException == Exc("", FALSE, 0, FALSE, "")

Raise(e) == [raised |-> TRUE, exc |-> e]

Return == [raised |-> FALSE, exc |-> NoException]

\* What the datastore layer and the file adapter may raise.
BackendErrors ==
    {Exc("Exception", FALSE, 0, FALSE, ""),
     Exc("ServiceException", TRUE, 503, TRUE, "Datastore unavailable"),
     Exc("ApiException", TRUE, 429, FALSE, "")}

(***************************************************************************)
(* validate_token                                                          *)
(***************************************************************************)
validate_token(pinecone_name, credentials) ==
    IF pinecone_name = None THEN Raise(AttributeError)
    ELSE LET env_name == upper(pinecone_name) \o "_BEARER"
             correct_auth_header == environ_get(env_name)
         IN  IF correct_auth_header = None
             THEN Raise(HTTPException(400,
                    "The server doesn't have credentials setup for the pinecone "
                    \o pinecone_name
                    \o ". It must be stored as an ENV named " \o env_name))
             ELSE IF \/ credentials.scheme # "Bearer"
                     \/ credentials.credentials # correct_auth_header
                  THEN Raise(HTTPException(401, "Invalid or missing token"))
                  ELSE Return

(***************************************************************************)
(* handle_error: the line it prints and the HTTPException it raises.       *)
(***************************************************************************)
\* Variant: the exception's own status_code and detail are ignored.
handle_error_always_500(e) ==
    [printed |-> "Error: Internal Service Error status_code: 500",
     raised |-> HTTPException(500, "Internal Service Error")]

handle_error(e) ==
    LET status_code == IF e.has_status_code THEN e.status_code ELSE 500
        detail == IF e.has_detail THEN e.detail ELSE "Internal Service Error"
    IN  [printed |-> "Error: " \o detail \o " status_code: " \o ToString(status_code),
         raised |-> HTTPException(status_code, detail)]

(***************************************************************************)
(* Responses.                                                              *)
(***************************************************************************)
NoContent == [ids |-> <<>>, results |-> <<>>, success |-> FALSE]

NoResponse == [kind |-> "none", status_code |-> 0, detail |-> "", content |-> NoContent]

\* An HTTPException leaving a handler: FastAPI answers with its status and detail.
ErrorResponse(e) ==
    [kind |-> "error", status_code |-> e.status_code, detail |-> e.detail,
     content |-> NoContent]

\* Any other exception leaving a handler: the server's own 500 page.
UnhandledResponse ==
    [kind |-> "unhandled", status_code |-> 500, detail |-> "Internal Server Error",
     content |-> NoContent]

OkResponse(content) ==
    [kind |-> "ok", status_code |-> 200, detail |-> "", content |-> content]

UpsertResponse(ids) == OkResponse([NoContent EXCEPT !.ids = ids])

QueryResponse(results) == OkResponse([NoContent EXCEPT !.results = results])

DeleteResponse(success) == OkResponse([NoContent EXCEPT !.success = success])

(***************************************************************************)
(* The datastore layer (datastore.factory, the DataStore class) and the    *)
(* file adapter (services.file).                                           *)
(***************************************************************************)
IndexNames == {"docs", "Wiki"}

\* A handle is the name of the index it is bound to.
get_datastore(index_name) ==
    {Raise(e) : e \in BackendErrors}
        \cup (IF index_name \in IndexNames
              THEN {[raised |-> FALSE, exc |-> NoException, handle |-> index_name]}
              ELSE {})

Matches(query, doc) ==
    \/ query = "q1" /\ doc = "d1"
    \/ query = "q2" /\ doc = "d2"

FilterMatches(filter, doc) == filter = "f1" /\ doc = "d1"

Range(s) == {s[i] : i \in 1..Len(s)}

datastore_upsert(contents, documents) ==
    [contents |-> contents \cup Range(documents), ids |-> documents]

datastore_query(contents, queries) ==
    [i \in 1..Len(queries) |->
        [query |-> queries[i],
         results |-> {d \in contents : Matches(queries[i], d)}]]

datastore_delete(contents, ids, filter, delete_all) ==
    [contents |->
        IF delete_all THEN {}
        ELSE {d \in contents :
                /\ \A l \in ids : d \notin Range(l)
                /\ ~FilterMatches(filter, d)},
     success |-> TRUE]

get_document_from_file(file) ==
    IF file = "notes.txt"
    THEN {[raised |-> FALSE, exc |-> NoException, document |-> "d1"]}
    ELSE {Raise(Exc("ValueError", FALSE, 0, FALSE, ""))}

(***************************************************************************)
(* Requests in flight.                                                     *)
(***************************************************************************)
NoRequest ==
    [handler |-> "", pinecone_name |-> None,
     token |-> [scheme |-> "", credentials |-> ""],
     body |-> NoBody, pc |-> "idle", document |-> None, ds |-> Unbound,
     trace |-> <<>>, calls |-> <<>>, stdout |-> <<>>, raised |-> NoException,
     raised_at |-> "", response |-> NoResponse]

FirstStep(handler) ==
    CASE handler = "upsert_file" -> "convert"
      [] handler = "delete" -> "precondition"
      [] OTHER -> "validate"

Init ==
    /\ phase = "init"
    /\ datastore = Unbound
    /\ index \in [IndexNames -> SUBSET DocIds]
    /\ req = [w \in Workers |-> NoRequest]

(***************************************************************************)
(* startup: binds the process-wide handle to the default store.            *)
(***************************************************************************)
startup ==
    /\ phase = "init"
    /\ \E r \in get_datastore(environ_get("PINECONE_INDEX")) :
          \/ /\ ~r.raised
             /\ datastore' = r.handle
             /\ phase' = "running"
          \/ /\ r.raised
             /\ phase' = "failed"
             /\ UNCHANGED datastore
    /\ UNCHANGED <<index, req>>

(***************************************************************************)
(* A request that passed the bearer_scheme dependency enters its handler.  *)
(***************************************************************************)
Enter(w, handler, name, token, body) ==
    /\ phase = "running"
    /\ req[w].pc = "idle"
    /\ req' = [req EXCEPT ![w] =
                  [NoRequest EXCEPT !.handler = handler,
                                    !.pinecone_name = name,
                                    !.token = token,
                                    !.body = body,
                                    !.pc = FirstStep(handler)]]
    /\ UNCHANGED <<phase, datastore, index>>

\* A client that waits for each response before it sends the next request.
Receive(w) ==
    /\ \A v \in Workers : req[v].pc = "idle"
    /\ \E handler \in Handlers, name \in PineconeNames, token \in Tokens :
          \E body \in Bodies(handler) : Enter(w, handler, name, token, body)

\* Clients whose requests overlap.
ReceiveConcurrent(w) ==
    \E handler \in Handlers, name \in PineconeNames, token \in Tokens :
       \E body \in ConcurrentBodies(handler) : Enter(w, handler, name, token, body)

\* The response has been sent; the worker is free again.
Complete(w) ==
    /\ req[w].pc = "done"
    /\ req' = [req EXCEPT ![w] = NoRequest]
    /\ UNCHANGED <<phase, datastore, index>>

(***************************************************************************)
(* Steps shared by the handlers.                                           *)
(***************************************************************************)
\* except Exception as e: handle_error(e)
Caught(w, step, e) ==
    LET h == handle_error(e)
    IN  req' = [req EXCEPT ![w].pc = "done",
                           ![w].trace = @ \o <<step, "log">>,
                           ![w].stdout = Append(@, h.printed),
                           ![w].raised = e,
                           ![w].raised_at = step,
                           ![w].response = ErrorResponse(h.raised)]

\* validate_token(pinecone_name, token)
Validate(w, next) ==
    LET v == validate_token(req[w].pinecone_name, req[w].token)
    IN  /\ IF v.raised
           THEN Caught(w, "validate", v.exc)
           ELSE req' = [req EXCEPT ![w].pc = next,
                                   ![w].trace = Append(@, "validate")]
        /\ UNCHANGED <<phase, datastore, index>>

\* Variant: the handler declares `global datastore` before it assigns.
BindDatastoreGlobal(w, handle) ==
    /\ req' = [req EXCEPT ![w].pc = "operate",
                          ![w].ds = handle,
                          ![w].trace = Append(@, "resolve")]
    /\ datastore' = handle

\* datastore = ...: the name is local to the handler.
BindDatastore(w, handle) ==
    /\ req' = [req EXCEPT ![w].pc = "operate",
                          ![w].ds = handle,
                          ![w].trace = Append(@, "resolve")]
    /\ UNCHANGED datastore

\* datastore = await get_datastore(index_name=pinecone_name)
Resolve(w) ==
    /\ \E r \in get_datastore(req[w].pinecone_name) :
          IF r.raised
          THEN Caught(w, "resolve", r.exc) /\ UNCHANGED datastore
          ELSE BindDatastore(w, r.handle)
    /\ UNCHANGED <<phase, index>>

\* An awaited datastore operation raised.
OperationRaises(w, op, handle, args) ==
    /\ \E e \in BackendErrors :
          LET h == handle_error(e)
          IN  req' = [req EXCEPT ![w].pc = "done",
                                 ![w].trace = @ \o <<op, "log">>,
                                 ![w].calls = Append(@, [op |-> op, store |-> handle, args |-> args]),
                                 ![w].stdout = Append(@, h.printed),
                                 ![w].raised = e,
                                 ![w].raised_at = op,
                                 ![w].response = ErrorResponse(h.raised)]
    /\ UNCHANGED <<phase, datastore, index>>

Returned(w, op, handle, args, response) ==
    req' = [req EXCEPT ![w].pc = "done",
                       ![w].trace = Append(@, op),
                       ![w].calls = Append(@, [op |-> op, store |-> handle, args |-> args]),
                       ![w].response = response]

\* ids = await datastore.upsert(documents); return UpsertResponse(ids=ids)
CallUpsert(w, handle, documents) ==
    \/ LET r == datastore_upsert(index[handle], documents)
       IN  /\ index' = [index EXCEPT ![handle] = r.contents]
           /\ Returned(w, "upsert", handle, documents, UpsertResponse(r.ids))
           /\ UNCHANGED <<phase, datastore>>
    \/ OperationRaises(w, "upsert", handle, documents)

\* Variant: the handler hands the queries over in reverse order.
CallQueryReversed(w, handle) ==
    \/ LET given == req[w].body.queries
           queries == [i \in 1..Len(given) |-> given[Len(given) + 1 - i]]
           results == datastore_query(index[handle], queries)
       IN  /\ Returned(w, "query", handle, queries, QueryResponse(results))
           /\ UNCHANGED <<phase, datastore, index>>
    \/ OperationRaises(w, "query", handle, req[w].body.queries)

\* results = await datastore.query(request.queries); return QueryResponse(results=results)
CallQuery(w, handle) ==
    \/ LET queries == req[w].body.queries
           results == datastore_query(index[handle], queries)
       IN  /\ Returned(w, "query", handle, queries, QueryResponse(results))
           /\ UNCHANGED <<phase, datastore, index>>
    \/ OperationRaises(w, "query", handle, req[w].body.queries)

\* success = await datastore.delete(ids=..., filter=..., delete_all=...)
CallDelete(w, handle) ==
    LET b == req[w].body
        args == [ids |-> b.ids, filter |-> b.filter, delete_all |-> b.delete_all]
    IN  \/ LET r == datastore_delete(index[handle], b.ids, b.filter, b.delete_all)
           IN  /\ index' = [index EXCEPT ![handle] = r.contents]
               /\ Returned(w, "delete", handle, args, DeleteResponse(r.success))
               /\ UNCHANGED <<phase, datastore>>
        \/ OperationRaises(w, "delete", handle, args)

(***************************************************************************)
(* The handlers.                                                           *)
(***************************************************************************)
upsert_file(w) ==
    /\ req[w].handler = "upsert_file"
    /\ \/ /\ req[w].pc = "convert"
          /\ \E r \in get_document_from_file(req[w].body.file) :
                IF r.raised
                THEN req' = [req EXCEPT ![w].pc = "done",
                                        ![w].trace = Append(@, "convert"),
                                        ![w].raised = r.exc,
                                        ![w].raised_at = "convert",
                                        ![w].response = UnhandledResponse]
                ELSE req' = [req EXCEPT ![w].pc = "validate",
                                        ![w].trace = Append(@, "convert"),
                                        ![w].document = r.document]
          /\ UNCHANGED <<phase, datastore, index>>
       \/ /\ req[w].pc = "validate"
          /\ Validate(w, "resolve")
       \/ /\ req[w].pc = "resolve"
          /\ Resolve(w)
       \/ /\ req[w].pc = "operate"
          /\ CallUpsert(w, req[w].ds, <<req[w].document>>)

upsert(w) ==
    /\ req[w].handler = "upsert"
    /\ \/ /\ req[w].pc = "validate"
          /\ Validate(w, "resolve")
       \/ /\ req[w].pc = "resolve"
          /\ Resolve(w)
       \/ /\ req[w].pc = "operate"
          /\ CallUpsert(w, req[w].ds, req[w].body.documents)

query_main(w) ==
    /\ req[w].handler = "query_main"
    /\ \/ /\ req[w].pc = "validate"
          /\ Validate(w, "resolve")
       \/ /\ req[w].pc = "resolve"
          /\ Resolve(w)
       \/ /\ req[w].pc = "operate"
          /\ CallQuery(w, req[w].ds)

\* The sub-application's handler binds no local name: `datastore` is the
\* module global that startup assigned.
query(w) ==
    /\ req[w].handler = "query"
    /\ \/ /\ req[w].pc = "validate"
          /\ Validate(w, "operate")
       \/ /\ req[w].pc = "operate"
          /\ CallQuery(w, datastore)

\* Variant: `is None` tests, so that an empty ids list counts as supplied.
delete_lacks_selector_is_none(body) ==
    body.ids = Nothing /\ body.filter = None /\ ~body.delete_all

\* not (request.ids or request.filter or request.delete_all)
delete_lacks_selector(body) ==
    ~(TruthyList(body.ids) \/ body.filter # None \/ body.delete_all)

delete(w) ==
    /\ req[w].handler = "delete"
    /\ \/ /\ req[w].pc = "precondition"
          /\ IF delete_lacks_selector(req[w].body)
             THEN req' = [req EXCEPT
                     ![w].pc = "done",
                     ![w].trace = Append(@, "precondition"),
                     ![w].raised = HTTPException(400, "One of ids, filter, or delete_all is required"),
                     ![w].raised_at = "precondition",
                     ![w].response = ErrorResponse(
                         HTTPException(400, "One of ids, filter, or delete_all is required"))]
             ELSE req' = [req EXCEPT ![w].pc = "validate",
                                     ![w].trace = Append(@, "precondition")]
          /\ UNCHANGED <<phase, datastore, index>>
       \/ /\ req[w].pc = "validate"
          /\ Validate(w, "resolve")
       \/ /\ req[w].pc = "resolve"
          /\ Resolve(w)
       \/ /\ req[w].pc = "operate"
          /\ CallDelete(w, req[w].ds)

Handle(w) ==
    \/ upsert_file(w)
    \/ upsert(w)
    \/ query_main(w)
    \/ query(w)
    \/ delete(w)
    \/ Complete(w)

Next ==
    \/ startup
    \/ \E w \in Workers : Receive(w) \/ Handle(w)

Spec == Init /\ [][Next]_vars

NextConcurrent ==
    \/ startup
    \/ \E w \in Workers : ReceiveConcurrent(w) \/ Handle(w)

SpecConcurrent == Init /\ [][NextConcurrent]_vars

(***************************************************************************)
(* Vocabulary of the properties.                                           *)
(***************************************************************************)
\* The secret the deployment configured for each store.
ConfiguredSecret == [docs |-> "docs-token", Wiki |-> "wiki-token"]

Configured(name) == name \in DOMAIN ConfiguredSecret

\* The request presents exactly the secret of the store it names.
Authorized(r) ==
    /\ Configured(r.pinecone_name)
    /\ r.token.scheme = "Bearer"
    /\ r.token.credentials = ConfiguredSecret[r.pinecone_name]

Operations == {"upsert", "query", "delete"}

TrySteps == {"validate", "resolve"} \cup Operations

Finished(r) == r.pc = "done"

\* ids, filter and delete_all are all absent, empty or false.
NoSelector(body) ==
    /\ body.ids \in {Nothing, Some(<<>>)}
    /\ body.filter = None
    /\ body.delete_all = FALSE

PreconditionError ==
    [kind |-> "error", status_code |-> 400,
     detail |-> "One of ids, filter, or delete_all is required",
     content |-> NoContent]

(***************************************************************************)
(* C1: a DELETE /delete request with none of ids, filter and delete_all    *)
(* set ends with 400 "One of ids, filter, or delete_all is required",      *)
(* whatever the datastore state, the token and the pinecone_name header,   *)
(* and never resolves a datastore or invokes a datastore operation.        *)
(***************************************************************************)
C1_DeleteWithoutSelectorIs400 ==
    \A w \in Workers :
       LET r == req[w]
       IN  (r.handler = "delete" /\ NoSelector(r.body)) =>
              /\ r.pc \in {"precondition", "done"}
              /\ r.calls = <<>>
              /\ r.ds = Unbound
              /\ "validate" \notin Range(r.trace)
              /\ Finished(r) => r.response = PreconditionError

\* An empty ids list, a token of another store, a non-empty store: still 400.
C1_Witness ==
    \E w \in Workers :
       LET r == req[w]
       IN  /\ r.handler = "delete"
           /\ r.body.ids = Some(<<>>)
           /\ NoSelector(r.body)
           /\ r.pinecone_name = "docs"
           /\ r.token.credentials = "wiki-token"
           /\ index["docs"] # {}
           /\ Finished(r)
           /\ r.response.status_code = 400

(***************************************************************************)
(* C2: a request to any endpoint that names a store with a configured      *)
(* secret and presents a token different from that secret is answered 401. *)
(***************************************************************************)
C2_MismatchedTokenIs401 ==
    \A w \in Workers :
       LET r == req[w]
       IN  (/\ Finished(r)
            /\ Configured(r.pinecone_name)
            /\ r.token.credentials # ConfiguredSecret[r.pinecone_name])
           => r.response.status_code = 401

(***************************************************************************)
(* C3: a request to any endpoint that names a store with no                *)
(* <STORE_NAME_UPPER>_BEARER variable is answered 400 with a detail that   *)
(* names the expected variable, whatever token it presents.                *)
(***************************************************************************)
C3_UnconfiguredStoreIs400 ==
    \A w \in Workers :
       LET r == req[w]
       IN  (Finished(r) /\ r.pinecone_name = "misc") =>
              /\ r.response.status_code = 400
              /\ r.response.detail =
                    "The server doesn't have credentials setup for the pinecone misc. It must be stored as an ENV named MISC_BEARER"

(***************************************************************************)
(* C4: in every handler the steps of a request come in the order validate  *)
(* auth, resolve the datastore, one datastore operation: no file           *)
(* conversion, resolution or operation precedes the auth validation, every *)
(* operation follows a resolution, a successful request made exactly one   *)
(* operation, and a request whose validation failed made none.             *)
(***************************************************************************)
C4_AuthThenResolveThenOneOperation ==
    \A w \in Workers :
       LET r == req[w]
           t == r.trace
           ops == {i \in 1..Len(t) : t[i] \in Operations}
       IN  /\ \A i \in 1..Len(t) :
                 t[i] \in {"convert", "resolve"} \cup Operations
                    => \E j \in 1..(i - 1) : t[j] = "validate"
           /\ \A i \in ops : \E j \in 1..(i - 1) : t[j] = "resolve"
           /\ Cardinality(ops) <= 1
           /\ r.response.kind = "ok" => Cardinality(ops) = 1
           /\ r.raised_at = "validate" => r.calls = <<>>

(***************************************************************************)
(* C5: when auth validation, datastore resolution or the datastore         *)
(* operation raises, the request ends with an HTTP error carrying the      *)
(* exception's own status_code and detail where it has them, 500 and       *)
(* "Internal Service Error" where it has not; the 400 and 401 of           *)
(* validate_token arrive unchanged; a request without a pinecone_name      *)
(* header ends with an HTTP error.                                         *)
(***************************************************************************)
C5_RaisedErrorsKeepStatusAndDetail ==
    \A w \in Workers :
       LET r == req[w]
       IN  /\ r.raised_at \in TrySteps =>
                /\ Finished(r)
                /\ r.response.kind = "error"
                /\ r.response.status_code =
                      IF r.raised.has_status_code THEN r.raised.status_code ELSE 500
                /\ r.response.detail =
                      IF r.raised.has_detail THEN r.raised.detail
                      ELSE "Internal Service Error"
           /\ (r.raised_at = "validate" /\ r.raised.type = "HTTPException") =>
                /\ r.raised.status_code \in {400, 401}
                /\ r.response.status_code = r.raised.status_code
                /\ r.response.detail = r.raised.detail
           /\ (r.pinecone_name = None /\ "validate" \in Range(r.trace)) =>
                /\ Finished(r)
                /\ r.response.kind = "error"
                /\ r.response.status_code = 500
                /\ r.response.detail = "Internal Service Error"
           /\ (r.pinecone_name = None /\ Finished(r) /\ r.raised_at # "convert") =>
                r.response.kind = "error"

\* A datastore operation raised an error that carries 503 and a detail.
C5_Witness ==
    \E w \in Workers :
       LET r == req[w]
       IN  /\ Finished(r)
           /\ r.raised_at \in Operations
           /\ r.raised.has_status_code
           /\ r.raised.has_detail
           /\ r.response.status_code = 503
           /\ r.response.detail = "Datastore unavailable"

(***************************************************************************)
(* C6: every request that ends with an HTTP error response had its error   *)
(* logged before the response, on every path of every handler.             *)
(***************************************************************************)
C6_ErrorsLoggedBeforeResponse ==
    \A w \in Workers :
       LET r == req[w]
       IN  (Finished(r) /\ r.response.kind \in {"error", "unhandled"}) =>
              /\ "log" \in Range(r.trace)
              /\ r.stdout # <<>>

(***************************************************************************)
(* C7: the process-wide datastore handle is unbound until startup, holds   *)
(* the default store's handle from then on, and no interleaving of         *)
(* handlers changes it.                                                    *)
(***************************************************************************)
C7_GlobalHandleAssignedOnceByStartup ==
    /\ phase \in {"init", "failed"} => datastore = Unbound
    /\ phase = "running" => datastore = "docs"

\* Two overlapping requests, one holding a local handle of another store,
\* the other about to read the global handle.
C7_Witness ==
    \E a, b \in Workers :
       /\ a # b
       /\ req[a].pc = "operate"
       /\ req[a].ds = "Wiki"
       /\ req[b].handler = "query"
       /\ req[b].pc = "operate"
       /\ datastore = "docs"

(***************************************************************************)
(* C8: POST /sub/query answers as POST /query does: for the same body,     *)
(* token and pinecone_name header and the same datastore state, the two    *)
(* responses are equal (the datastore layer raising in neither).           *)
(***************************************************************************)
C8_SubQuerySameAsQuery ==
    \A a, b \in Workers :
       LET ra == req[a]
           rb == req[b]
       IN  (/\ ra.handler = "query_main" /\ rb.handler = "query"
            /\ Finished(ra) /\ Finished(rb)
            /\ ra.pinecone_name = rb.pinecone_name
            /\ ra.token = rb.token
            /\ ra.body = rb.body
            /\ ra.raised_at \notin {"resolve", "query"}
            /\ rb.raised_at \notin {"resolve", "query"})
           => ra.response = rb.response

(***************************************************************************)
(* C9: an authorized POST /query hands request.queries to the datastore of *)
(* the named store in request order and answers 200 with the datastore's   *)
(* result list: one result set per query, in the order of the queries.     *)
(* The only other outcome is an error raised by the datastore layer.       *)
(***************************************************************************)
C9_QueryResultsFollowQueryOrder ==
    \A w \in Workers :
       LET r == req[w]
           queries == r.body.queries
           results == r.response.content.results
       IN  (r.handler = "query_main" /\ Authorized(r) /\ Finished(r)) =>
              \/ /\ r.raised_at \in {"resolve", "query"}
                 /\ r.raised \in BackendErrors
                 /\ r.response.kind = "error"
              \/ /\ r.raised = NoException
                 /\ r.response.kind = "ok"
                 /\ r.response.status_code = 200
                 /\ r.calls = <<[op |-> "query", store |-> r.pinecone_name, args |-> queries]>>
                 /\ Len(results) = Len(queries)
                 /\ \A i \in 1..Len(queries) :
                       /\ results[i].query = queries[i]
                       /\ results[i].results =
                             {d \in index[r.pinecone_name] : Matches(queries[i], d)}

\* Two different queries against a store that holds a match for each.
C9_Witness ==
    \E w \in Workers :
       LET r == req[w]
       IN  /\ r.handler = "query_main"
           /\ Authorized(r)
           /\ Finished(r)
           /\ r.body.queries = <<"q2", "q1">>
           /\ index[r.pinecone_name] = {"d1", "d2"}
           /\ r.response.kind = "ok"
           /\ r.response.content.results[1].results = {"d2"}
           /\ r.response.content.results[2].results = {"d1"}

(***************************************************************************)
(* C10: store isolation: a datastore operation is performed on store S     *)
(* only for a request whose bearer token equals the secret configured for  *)
(* S.                                                                      *)
(***************************************************************************)
C10_StoreIsolation ==
    \A w \in Workers :
       LET r == req[w]
       IN  \A i \in 1..Len(r.calls) :
              /\ Configured(r.calls[i].store)
              /\ r.token.credentials = ConfiguredSecret[r.calls[i].store]

====
